---- MODULE Spec2Model ----
(***************************************************************************)
(* Site availability monitor (site_monitor.py): the prober                 *)
(* SiteChecker.check_once, the confirmation routine                        *)
(* SiteChecker.check_with_confirmation, the notifier TelegramHandler.notify *)
(* and the monitor loop SiteMonitor.run, as one state machine.             *)
(*                                                                         *)
(* One action is one step of the program between two blocking calls (an    *)
(* HTTP request, a sleep, the notifier).  The target site, the Telegram    *)
(* API, the wall clock and the interrupt signal are the environment.       *)
(***************************************************************************)
EXTENDS Integers, Sequences, FiniteSets, TLC

(***************************************************************************)
(* Bounds of the model.                                                    *)
(***************************************************************************)
MaxRetries == 3        \* largest required-successes count explored
MaxCheckCount == 2     \* check_count saturates here (it is only logged)
MaxAdvance == 1        \* most ticks one blocking call lets pass
MaxRequests == 3       \* concurrent requests to "/" of the web app

(***************************************************************************)
(* The clock counts ticks.  The calendar is scaled down: the values below  *)
(* stand for 60 seconds a minute, 60 minutes an hour and 24 hours a day.   *)
(***************************************************************************)
TicksPerMin == 1
MinPerHour == 2
HoursPerDay == 1

DayLen == HoursPerDay * MinPerHour * TicksPerMin
MaxElapsed == DayLen   \* the clock stops advancing this long after start

None == -1             \* Python's None for an Optional[int] / Optional[datetime]

Min(a, b) == IF a < b THEN a ELSE b

(***************************************************************************)
(* Text: a string is a tuple of one-character strings.                     *)
(***************************************************************************)
UpperCase == <<"A","B","C","D","E","F","G","H","I","J","K","L","M","N","O","P","Q","R","S","T","U","V","W","X","Y","Z">>
LowerCase == <<"a","b","c","d","e","f","g","h","i","j","k","l","m","n","o","p","q","r","s","t","u","v","w","x","y","z">>

\* str.lower() on one character
LowerChar(c) ==
  IF \E i \in 1..Len(UpperCase) : UpperCase[i] = c
    THEN LowerCase[CHOOSE i \in 1..Len(UpperCase) : UpperCase[i] = c]
    ELSE c

\* str.lower()
Lower(s) == [i \in 1..Len(s) |-> LowerChar(s[i])]

\* Python's `kw in text` on strings
Contains(text, kw) ==
  \E i \in 0..(Len(text) - Len(kw)) :
    \A j \in 1..Len(kw) : text[i + j] = kw[j]

DOWN_KEYWORDS ==
  << <<"m","a","i","n","t","e","n","a","n","c","e">>,
     <<"i","n","d","i","s","p","o","n","i","b","l","e">>,
     <<"u","n","a","v","a","i","l","a","b","l","e">>,
     <<"s","e","r","v","i","c","e"," ","t","e","m","p","o","r","a","i","r","e","m","e","n","t">>,
     <<"t","e","m","p","o","r","a","r","i","l","y"," ","u","n","a","v","a","i","l","a","b","l","e">>,
     <<"e","n"," ","c","o","u","r","s"," ","d","e"," ","m","a","i","n","t","e","n","a","n","c","e">>,
     <<"h","o","r","s"," ","s","e","r","v","i","c","e">> >>

(***************************************************************************)
(* The environment: what the target site can answer to one request.        *)
(***************************************************************************)
\* response.text raises (undecodable body)
BodyError == <<"?text raises">>

Bodies ==
  { <<"W","e","l","c","o","m","e">>,
    <<"l","o","g","i","n">>,
    <<"S","i","t","e"," ","e","n"," ","M","A","I","N","T","E","N","A","N","C","E">>,
    <<"H","o","r","s"," ","S","e","r","v","i","c","e">>,
    <<"t","e","m","p","o","r","a","r","i","l","y"," ","u","n","a","v","a","i","l","a","b","l","e">>,
    BodyError }

StatusCodes == {200, 302, 401, 405, 503}

\* requests.exceptions classes a request can raise
Failures == {"Timeout", "ConnectionError", "SSLError", "RequestException"}

\* exc is an instance of class cls (requests: SSLError derives from
\* ConnectionError, everything derives from RequestException)
IsInstance(exc, cls) ==
  \/ exc = cls
  \/ cls = "RequestException"
  \/ exc = "SSLError" /\ cls = "ConnectionError"

Fail(exc) == [kind |-> "fail", exc |-> exc, code |-> None, body |-> <<>>]
Resp(c, b) == [kind |-> "resp", exc |-> "", code |-> c, body |-> b]

DEFAULT_OK_CODES == {200, 302, 303, 401}

TextHasKeyword(body) ==
  /\ body # BodyError
  /\ \E k \in 1..Len(DOWN_KEYWORDS) : Contains(Lower(body), DOWN_KEYWORDS[k])

\* The behaviours of the target: "any" answers anything, "flaky" answers
\* from a few replies that reach every branch of check_once, "up200" always
\* answers 200 with a body free of down-keywords, "down503" always 503.
Targets == {"any", "flaky", "up200", "down503"}

Welcome == <<"W","e","l","c","o","m","e">>
Maintenance == <<"S","i","t","e"," ","e","n"," ","M","A","I","N","T","E","N","A","N","C","E">>

HeadReplies(t) ==
  CASE t = "up200" -> {Resp(200, <<>>)}
    [] t = "down503" -> {Resp(503, <<>>)}
    [] t = "flaky" -> {Fail("Timeout"), Resp(405, <<>>), Resp(200, <<>>),
                       Resp(302, <<>>), Resp(503, <<>>)}
    [] OTHER -> {Fail(e) : e \in Failures} \cup {Resp(c, <<>>) : c \in StatusCodes}

GetReplies(t) ==
  CASE t = "up200" -> {Resp(200, b) : b \in {x \in Bodies : x # BodyError /\ ~TextHasKeyword(x)}}
    [] t = "down503" -> {Resp(503, b) : b \in Bodies}
    [] t = "flaky" -> {Fail("Timeout"), Resp(200, Welcome), Resp(200, Maintenance),
                       Resp(302, Welcome), Resp(503, Welcome)}
    [] OTHER -> {Fail(e) : e \in Failures} \cup {Resp(c, b) : c \in StatusCodes, b \in Bodies}

(***************************************************************************)
(* State.                                                                  *)
(***************************************************************************)
VARIABLES
  mode,               \* main(): "monitor" (monitor.run()) or "test" (--test)
  args,               \* main(): --ok-codes and --until as given, until used
  target,             \* behaviour of the monitored site (environment)
  ok_codes,           \* SiteChecker.ok_codes
  check_content,      \* SiteChecker.check_content
  retries,            \* SiteMonitor.retries
  cooldown,           \* SiteMonitor.cooldown
  spam_count,         \* TelegramHandler.spam_count
  stop_after_minutes, \* SiteMonitor.stop_after_minutes
  stop_at_time,       \* SiteMonitor.stop_at_time
  start_time,         \* SiteMonitor.start_time
  last_notification,  \* SiteMonitor.last_notification
  now,                \* the wall clock, datetime.now()
  pc,                 \* where main / run / check_with_confirmation stands
  stage,              \* where check_once stands
  head,               \* check_once: what _try_head returned
  get,                \* check_once: what _try_get returned
  res,                \* what check_once returned
  resp_text,          \* check_once: response.text of the GET response
  successes,          \* check_with_confirmation: successes
  attempts,           \* check_with_confirmation: attempts
  probes,             \* results of the probes of the current confirmation
  sleeps,             \* time.sleep(delay) calls of the current confirmation
  ok,                 \* run: ok of this iteration ("unset" before the probe)
  confirmed,          \* run: confirmed of this iteration
  notif_now,          \* run: the local `now` read before notifying
  stop_checked,       \* run: when _should_stop was evaluated in this iteration
  check_count,        \* run: check_count
  notify_calls,       \* number of calls of telegram.notify
  delivered,          \* what the last telegram.notify returned
  retval,             \* value returned by run() / main()
  reason,             \* why run() ended (what it logs when it returns)
  started,            \* app: _started
  lock,               \* app: the request holding _lock (0: free)
  monitor_thread,     \* app: _monitor_thread, named by the request that made it (0: None)
  rpc,                \* app: where each request to "/" stands in start_monitor_once
  just_started,       \* app: what start_monitor_once returned to each request
  thread              \* app: the monitor thread each request created, and its state

cfg == <<mode, args, target, ok_codes, check_content, retries, cooldown, spam_count,
         stop_after_minutes, stop_at_time, start_time>>
probe == <<stage, head, get, res, resp_text>>
conf == <<successes, attempts, probes, sleeps>>
loop == <<ok, confirmed, notif_now, stop_checked, check_count>>
out == <<notify_calls, delivered, last_notification, retval, reason>>
app == <<started, lock, monitor_thread, rpc, just_started, thread>>
vars == <<cfg, probe, conf, loop, out, now, pc, app>>

(***************************************************************************)
(* The clock.  A blocking call lets 0..MaxAdvance ticks pass; the clock is *)
(* not advanced beyond MaxElapsed ticks after the monitor's start.         *)
(***************************************************************************)
Advance == 0..MaxAdvance

ClockEnd == IF start_time = None THEN 0 ELSE start_time + MaxElapsed

Tick(d) == now' = IF now + d <= ClockEnd THEN now + d ELSE now

(***************************************************************************)
(* SiteChecker                                                             *)
(***************************************************************************)
NoCall == [ok |-> FALSE, code |-> None, err |-> "not called"]
NoRes == [up |-> FALSE, kind |-> "none", code |-> None, kw |-> 0]
NoText == <<>>

\* _try_head: (ok, response, message); of the response the code is kept
try_head(r) ==
  IF r.kind = "resp"
    THEN IF r.code = 405
           THEN [ok |-> FALSE, code |-> None, err |-> "HEAD not allowed"]
           ELSE [ok |-> TRUE, code |-> r.code, err |-> ""]
    ELSE [ok |-> FALSE, code |-> None, err |-> "HEAD failed"]

\* the except clauses of _try_get, in order
GetExcepts ==
  << <<"Timeout", "Connection timeout">>,
     <<"ConnectionError", "Connection error">>,
     <<"SSLError", "SSL error">>,
     <<"RequestException", "Request failed">> >>

\* _try_get: (ok, response, message)
try_get(r) ==
  IF r.kind = "resp"
    THEN [ok |-> TRUE, code |-> r.code, err |-> ""]
    ELSE LET i == CHOOSE k \in 1..Len(GetExcepts) :
                    /\ IsInstance(r.exc, GetExcepts[k][1])
                    /\ \A j \in 1..(k - 1) : ~IsInstance(r.exc, GetExcepts[j][1])
         IN [ok |-> FALSE, code |-> None, err |-> GetExcepts[i][2]]

\* mutant of content_has_down_keywords: the text is not lower-cased
content_has_down_keywords_case_sensitive(enabled, body) ==
  IF ~enabled THEN [bad |-> FALSE, kw |-> 0]
  ELSE IF body = BodyError THEN [bad |-> FALSE, kw |-> 0]
  ELSE LET hits == {k \in 1..Len(DOWN_KEYWORDS) : Contains(body, DOWN_KEYWORDS[k])}
       IN IF hits = {} THEN [bad |-> FALSE, kw |-> 0]
          ELSE [bad |-> TRUE, kw |-> CHOOSE k \in hits : \A j \in hits : k <= j]

\* _content_has_down_keywords: (bad, index of the keyword cited)
content_has_down_keywords(enabled, body) ==
  IF ~enabled THEN [bad |-> FALSE, kw |-> 0]
  ELSE IF body = BodyError THEN [bad |-> FALSE, kw |-> 0]
  ELSE LET text == Lower(body)
           hits == {k \in 1..Len(DOWN_KEYWORDS) : Contains(text, DOWN_KEYWORDS[k])}
       IN IF hits = {} THEN [bad |-> FALSE, kw |-> 0]
          ELSE [bad |-> TRUE, kw |-> CHOOSE k \in hits : \A j \in hits : k <= j]

Up(code) == [up |-> TRUE, kind |-> "HTTP", code |-> code, kw |-> 0]
DownCode(code) == [up |-> FALSE, kind |-> "HTTP treated as DOWN", code |-> code, kw |-> 0]
DownError(err) == [up |-> FALSE, kind |-> err, code |-> None, kw |-> 0]
DownKeyword(code, kw) == [up |-> FALSE, kind |-> "HTTP but page contains", code |-> code, kw |-> kw]

AmbiguousCodes == {200, 401}

Return(r) == [stage |-> "ret", res |-> r]
Goto(s) == [stage |-> s, res |-> NoRes]

\* mutant of check_once_head: the status code is not compared with ok_codes
check_once_head_any_code(h) ==
  IF h.ok /\ h.code # None
    THEN IF check_content /\ h.code \in AmbiguousCodes THEN Goto("get_body")
         ELSE Return(Up(h.code))
    ELSE Goto("get_fallback")

\* check_once after _try_head: return, or which GET comes next
check_once_head(h) ==
  IF h.ok /\ h.code # None
    THEN IF h.code \notin ok_codes THEN Return(DownCode(h.code))
         ELSE IF check_content /\ h.code \in AmbiguousCodes THEN Goto("get_body")
         ELSE Return(Up(h.code))
    ELSE Goto("get_fallback")

\* mutant of check_once_body: a GET that failed is taken for a clean body
check_once_body_ignoring_failure(h, g, body) ==
  LET c == content_has_down_keywords(check_content /\ g.ok, body)
  IN IF c.bad THEN Return(DownKeyword(h.code, c.kw))
     ELSE Return(Up(h.code))

\* check_once after the GET made for the body check (HEAD was accepted)
check_once_body(h, g, body) ==
  IF ~g.ok \/ g.code = None THEN Return(DownError(g.err))
  ELSE LET c == content_has_down_keywords(check_content, body)
       IN IF c.bad THEN Return(DownKeyword(h.code, c.kw))
          ELSE Return(Up(h.code))

\* check_once after the GET made because HEAD gave no response
check_once_fallback(g, body) ==
  IF ~g.ok \/ g.code = None THEN Return(DownError(g.err))
  ELSE IF g.code \notin ok_codes THEN Return(DownCode(g.code))
  ELSE LET c == content_has_down_keywords(check_content, body)
       IN IF c.bad THEN Return(DownKeyword(g.code, c.kw))
          ELSE Return(Up(g.code))

\* check_once is entered: nothing requested yet
CallCheckOnce ==
  /\ stage' = "head"
  /\ head' = NoCall
  /\ get' = NoCall
  /\ res' = NoRes
  /\ resp_text' = NoText

\* the caller has taken the result of check_once: its locals are gone
ReturnedCheckOnce ==
  /\ stage' = "idle"
  /\ head' = NoCall
  /\ get' = NoCall
  /\ res' = NoRes
  /\ resp_text' = NoText

\* the HEAD request of check_once and what follows it up to the next request
TryHead ==
  /\ stage = "head"
  /\ \E r \in HeadReplies(target), d \in Advance :
       LET h == try_head(r)
           n == check_once_head(h)
       IN /\ head' = h
          /\ stage' = n.stage
          /\ res' = n.res
          /\ Tick(d)
  /\ UNCHANGED <<app, cfg, get, resp_text, conf, loop, out, pc>>

\* the GET request of check_once and what follows it up to the return
TryGet ==
  /\ stage \in {"get_body", "get_fallback"}
  /\ \E r \in GetReplies(target), d \in Advance :
       LET g == try_get(r)
           n == IF stage = "get_body" THEN check_once_body(head, g, r.body)
                                      ELSE check_once_fallback(g, r.body)
       IN /\ get' = g
          /\ resp_text' = r.body
          /\ stage' = n.stage
          /\ res' = n.res
          /\ Tick(d)
  /\ UNCHANGED <<app, cfg, head, conf, loop, out, pc>>

\* mutant of count_success: a DOWN probe takes one success back
count_success_decrement(s, up) == IF up THEN s + 1 ELSE IF s > 0 THEN s - 1 ELSE 0

\* check_with_confirmation: the counter after a probe that was up / down
count_success(s, up) == IF up THEN s + 1 ELSE 0

\* mutant of confirm_result: one success more is asked for
confirm_result_strict(s, n) == s > n

\* check_with_confirmation: the value returned
confirm_result(s, n) == s >= n

\* mutant of confirm_continues: the budget is N + 1 attempts
confirm_continues_short(a, s, n) == a < n + 1 /\ s < n

\* check_with_confirmation: the while condition
confirm_continues(a, s, n) == a < n * 2 /\ s < n

\* check_with_confirmation is entered
CallConfirm ==
  /\ successes' = 0
  /\ attempts' = 0
  /\ probes' = <<>>
  /\ sleeps' = 0

\* check_with_confirmation: the loop head; the next probe or the return
ConfirmLoop ==
  /\ pc = "confirm"
  /\ IF confirm_continues(attempts, successes, retries)
       THEN /\ attempts' = attempts + 1
            /\ pc' = "cprobe"
            /\ CallCheckOnce
            /\ UNCHANGED <<confirmed>>
       ELSE /\ confirmed' = confirm_result(successes, retries)
            /\ pc' = "cret"
            /\ UNCHANGED <<attempts, probe>>
  /\ UNCHANGED <<app, cfg, successes, probes, sleeps, ok, notif_now, stop_checked, check_count, out, now>>

\* check_with_confirmation: check_once has returned
ConfirmProbed ==
  /\ pc = "cprobe"
  /\ stage = "ret"
  /\ LET s == count_success(successes, res.up)
     IN /\ successes' = s
        /\ pc' = IF s < retries THEN "csleep" ELSE "confirm"
  /\ probes' = Append(probes, res.up)
  /\ ReturnedCheckOnce
  /\ UNCHANGED <<app, cfg, attempts, sleeps, loop, out, now>>

\* check_with_confirmation: time.sleep(delay)
ConfirmSleep ==
  /\ pc = "csleep"
  /\ \E d \in Advance : Tick(d)
  /\ pc' = "confirm"
  /\ sleeps' = sleeps + 1
  /\ UNCHANGED <<app, cfg, probe, successes, attempts, probes, loop, out>>

(***************************************************************************)
(* TelegramHandler                                                         *)
(***************************************************************************)
NotifyRetries == 3

\* main() and run_monitor() start the monitor only if is_configured()
TelegramConfigured == TRUE

\* notify: posts[m][a] says whether attempt a of message m is answered 200
notify(configured, spam, posts) ==
  /\ configured
  /\ \E m \in 1..spam : \E a \in 1..NotifyRetries : posts[m][a]

(***************************************************************************)
(* SiteMonitor                                                             *)
(***************************************************************************)
\* --until as split(":") and int() leave it: <<>> is no value, <<hh, mm>> a
\* time of day (out of range ones included), anything else is malformed
Untils ==
  {<<>>, <<0>>, <<0, 0, 0>>}
    \cup {<<hh, mm>> : hh \in 0..HoursPerDay, mm \in 0..MinPerHour}

\* mutant of parse_until: a time of day equal to the current time is today's
parse_until_today_if_equal(until, t) ==
  IF until = <<>> THEN None
  ELSE IF Len(until) # 2 THEN None
  ELSE IF until[1] \notin 0..(HoursPerDay - 1) \/ until[2] \notin 0..(MinPerHour - 1)
    THEN None
  ELSE LET at == (t \div DayLen) * DayLen
                   + (until[1] * MinPerHour + until[2]) * TicksPerMin
       IN IF at < t THEN at + DayLen ELSE at

\* _parse_until at time t
parse_until(until, t) ==
  IF until = <<>> THEN None
  ELSE IF Len(until) # 2 THEN None
  ELSE IF until[1] \notin 0..(HoursPerDay - 1) \/ until[2] \notin 0..(MinPerHour - 1)
    THEN None
  ELSE LET at == (t \div DayLen) * DayLen
                   + (until[1] * MinPerHour + until[2]) * TicksPerMin
       IN IF at <= t THEN at + DayLen ELSE at

\* mutant of should_stop: the limits must be exceeded, not reached
should_stop_strict(t) ==
  IF stop_after_minutes # None /\ (t - start_time) > stop_after_minutes * TicksPerMin
    THEN [stop |-> TRUE, why |-> "TIME_LIMIT"]
  ELSE IF stop_at_time # None /\ t > stop_at_time
    THEN [stop |-> TRUE, why |-> "DEADLINE"]
  ELSE [stop |-> FALSE, why |-> ""]

\* mutant of should_stop: the time limit is not looked at
should_stop_deadline_only(t) ==
  IF stop_at_time # None /\ t >= stop_at_time
    THEN [stop |-> TRUE, why |-> "DEADLINE"]
  ELSE [stop |-> FALSE, why |-> ""]

\* _should_stop at time t
should_stop(t) ==
  IF stop_after_minutes # None /\ (t - start_time) >= stop_after_minutes * TicksPerMin
    THEN [stop |-> TRUE, why |-> "TIME_LIMIT"]
  ELSE IF stop_at_time # None /\ t >= stop_at_time
    THEN [stop |-> TRUE, why |-> "DEADLINE"]
  ELSE [stop |-> FALSE, why |-> ""]

\* run: the value returned when the loop ends for reason why
return_of(why) ==
  CASE why = "NOTIFIED" -> 0
    [] why = "TIME_LIMIT" -> 1
    [] why = "DEADLINE" -> 1
    [] why = "INTERRUPTED" -> 1

\* run: the cooldown condition at time t
may_notify(t) == last_notification = None \/ (t - last_notification) >= cooldown

\* run returns: its locals and those of its callees are gone (check_count,
\* which is only logged, is kept as the record of the probes issued)
ReturnFromRun ==
  /\ stage' = "idle" /\ head' = NoCall /\ get' = NoCall /\ res' = NoRes
  /\ resp_text' = NoText
  /\ successes' = 0 /\ attempts' = 0 /\ probes' = <<>> /\ sleeps' = 0
  /\ ok' = FALSE /\ confirmed' = FALSE /\ notif_now' = None /\ stop_checked' = None
  /\ UNCHANGED check_count

\* run: top of the while loop, up to the call of check_once
LoopTop ==
  /\ pc = "loop"
  /\ LET s == should_stop(now)
     IN IF s.stop
          THEN /\ pc' = "done"
               /\ retval' = return_of(s.why)
               /\ reason' = s.why
               /\ ReturnFromRun
          ELSE /\ check_count' = Min(check_count + 1, MaxCheckCount)
               /\ pc' = "probe"
               /\ stop_checked' = now
               /\ CallCheckOnce
               /\ UNCHANGED <<conf, ok, confirmed, notif_now, retval, reason>>
  /\ UNCHANGED <<app, cfg, notify_calls, delivered, last_notification, now>>

\* run: check_once has returned
Checked ==
  /\ pc = "probe"
  /\ stage = "ret"
  /\ ok' = res.up
  /\ IF res.up
       THEN /\ pc' = "confirm"
            /\ CallConfirm
            /\ UNCHANGED stop_checked
       ELSE /\ pc' = "sleep"
            /\ stop_checked' = None
            /\ UNCHANGED conf
  /\ ReturnedCheckOnce
  /\ UNCHANGED <<app, cfg, confirmed, notif_now, check_count, out, now>>

\* mutant of Confirmed: the result of the confirmation is not looked at
ConfirmedUnchecked ==
  /\ pc = "cret"
  /\ notif_now' = now
  /\ pc' = IF may_notify(now) THEN "notify" ELSE "sleep"
  /\ successes' = 0 /\ attempts' = 0 /\ probes' = <<>> /\ sleeps' = 0
  /\ UNCHANGED <<app, cfg, probe, ok, confirmed, stop_checked, check_count, out, now>>

\* run: check_with_confirmation has returned
Confirmed ==
  /\ pc = "cret"
  /\ IF confirmed
       THEN /\ notif_now' = now
            /\ pc' = IF may_notify(now) THEN "notify" ELSE "sleep"
       ELSE /\ pc' = "sleep"
            /\ UNCHANGED notif_now
  /\ successes' = 0 /\ attempts' = 0 /\ probes' = <<>> /\ sleeps' = 0
  /\ UNCHANGED <<app, cfg, probe, ok, confirmed, stop_checked, check_count, out, now>>

\* mutant of Notify: last_notification is not assigned
NotifyWithoutRecord ==
  /\ pc = "notify"
  /\ \E posts \in [1..spam_count -> [1..NotifyRetries -> BOOLEAN]] :
       delivered' = notify(TelegramConfigured, spam_count, posts)
  /\ \E d \in Advance : Tick(d)
  /\ notify_calls' = notify_calls + 1
  /\ retval' = return_of("NOTIFIED")
  /\ reason' = "NOTIFIED"
  /\ pc' = "done"
  /\ ReturnFromRun
  /\ UNCHANGED <<app, cfg, last_notification>>

\* mutant of Notify: run does not return after notifying, the loop goes on
NotifyAndContinue ==
  /\ pc = "notify"
  /\ \E posts \in [1..spam_count -> [1..NotifyRetries -> BOOLEAN]] :
       delivered' = notify(TelegramConfigured, spam_count, posts)
  /\ \E d \in Advance : Tick(d)
  /\ notify_calls' = notify_calls + 1
  /\ last_notification' = notif_now
  /\ pc' = "sleep"
  /\ UNCHANGED <<app, cfg, probe, conf, loop, retval, reason>>

\* run: telegram.notify(msg), last_notification = now, return 0
Notify ==
  /\ pc = "notify"
  /\ \E posts \in [1..spam_count -> [1..NotifyRetries -> BOOLEAN]] :
       delivered' = notify(TelegramConfigured, spam_count, posts)
  /\ \E d \in Advance : Tick(d)
  /\ notify_calls' = notify_calls + 1
  /\ last_notification' = notif_now
  /\ retval' = return_of("NOTIFIED")
  /\ reason' = "NOTIFIED"
  /\ pc' = "done"
  /\ ReturnFromRun
  /\ UNCHANGED <<app, cfg>>

\* run: time.sleep(self.interval); the iteration's ok, confirmed and now are
\* not read again
Sleep ==
  /\ pc = "sleep"
  /\ \E d \in Advance : Tick(d)
  /\ pc' = "loop"
  /\ ok' = FALSE /\ confirmed' = FALSE /\ notif_now' = None /\ stop_checked' = None
  /\ UNCHANGED <<app, cfg, probe, conf, check_count, out>>

\* where run is when it is inside its try block
RunPcs == {"loop", "probe", "confirm", "cprobe", "csleep", "cret", "notify", "sleep"}

\* mutant of Interrupt: the KeyboardInterrupt leaves run uncaught
InterruptPropagated ==
  /\ pc \in RunPcs
  /\ pc' = "done"
  /\ retval' = None
  /\ reason' = "INTERRUPTED"
  /\ ReturnFromRun
  /\ UNCHANGED <<app, cfg, notify_calls, delivered, last_notification, now>>

\* run: except KeyboardInterrupt
Interrupt ==
  /\ pc \in RunPcs
  /\ pc' = "done"
  /\ retval' = return_of("INTERRUPTED")
  /\ reason' = "INTERRUPTED"
  /\ ReturnFromRun
  /\ UNCHANGED <<app, cfg, notify_calls, delivered, last_notification, now>>

\* main --test: checker.check_once() is called
TestCall ==
  /\ pc = "test"
  /\ stage = "idle"
  /\ CallCheckOnce
  /\ UNCHANGED <<app, cfg, conf, loop, out, now, pc>>

\* main --test: return 0 if ok else 1
TestDone ==
  /\ pc = "test"
  /\ stage = "ret"
  /\ retval' = IF res.up THEN 0 ELSE 1
  /\ reason' = "TEST"
  /\ pc' = "done"
  /\ UNCHANGED <<app, cfg, probe, conf, loop, notify_calls, delivered, last_notification, now>>

Reasons == {"NOTIFIED", "TIME_LIMIT", "DEADLINE", "INTERRUPTED"}

(***************************************************************************)
(* main                                                                    *)
(***************************************************************************)
Digits == <<"0","1","2","3","4","5","6","7","8","9">>

\* str.strip() for blanks
RECURSIVE Strip(_)
Strip(s) ==
  IF s = <<>> THEN s
  ELSE IF Head(s) = " " THEN Strip(Tail(s))
  ELSE IF s[Len(s)] = " " THEN Strip(SubSeq(s, 1, Len(s) - 1))
  ELSE s

\* int(s) raises ValueError unless s is a decimal literal (unsigned ones here)
IsInt(s) == s # <<>> /\ \A i \in 1..Len(s) : \E d \in 1..Len(Digits) : Digits[d] = s[i]

\* int(s) for a decimal literal
RECURSIVE ParseInt(_)
ParseInt(s) ==
  IF s = <<>> THEN 0
  ELSE ParseInt(SubSeq(s, 1, Len(s) - 1)) * 10
         + (CHOOSE d \in 1..Len(Digits) : Digits[d] = s[Len(s)]) - 1

\* main: {int(x.strip()) for x in args.ok_codes.split(",")}; tokens is what
\* split(",") gives
parse_ok_codes(tokens) ==
  IF \E i \in 1..Len(tokens) : ~IsInt(Strip(tokens[i]))
    THEN [error |-> TRUE, codes |-> {}]
    ELSE [error |-> FALSE, codes |-> {ParseInt(Strip(tokens[i])) : i \in 1..Len(tokens)}]

\* --ok-codes after split(","): the default, a list with a blank, the
\* empty string, a list with a word in it
OkCodesArgs ==
  { << <<"2","0","0">>, <<"3","0","2">>, <<"3","0","3">>, <<"4","0","1">> >>,
    << <<"2","0","0">>, <<" ","5","0","3">> >>,
    << <<>> >>,
    << <<"2","0","0">>, <<"a","b","c">> >> }

\* the command line has been used
NoArgs == [ok_codes |-> <<>>, until |-> <<>>]

\* main: from the parsing of --ok-codes to the while loop of monitor.run()
Main ==
  /\ pc = "main"
  /\ LET c == parse_ok_codes(args.ok_codes)
     IN IF c.error
          THEN /\ pc' = "done"
               /\ retval' = 2
               /\ reason' = "INVALID_OK_CODES"
               /\ UNCHANGED <<ok_codes, start_time, stop_at_time>>
        ELSE IF ~TelegramConfigured
          THEN /\ pc' = "done"
               /\ retval' = 1
               /\ reason' = "NOT_CONFIGURED"
               /\ ok_codes' = c.codes
               /\ UNCHANGED <<start_time, stop_at_time>>
        ELSE /\ ok_codes' = c.codes
             /\ start_time' = now
             /\ stop_at_time' = parse_until(args.until, now)
             /\ pc' = "loop"
             /\ UNCHANGED <<retval, reason>>
  /\ args' = NoArgs
  /\ UNCHANGED <<app, mode, target, check_content, retries, cooldown, spam_count,
                 stop_after_minutes, probe, conf, loop, notify_calls, delivered,
                 last_notification, now>>

(***************************************************************************)
(* app.py: the web app that starts the monitor in a background thread      *)
(***************************************************************************)
Requests == 1..MaxRequests

\* the monitor's own variables, which the web app's steps leave alone
site == <<cfg, probe, conf, loop, out, now, pc>>

\* a request to "/" arrives: root calls start_monitor_once
RootCalled(r) ==
  /\ rpc[r] = "idle"
  /\ rpc' = [rpc EXCEPT ![r] = "acquire"]
  /\ UNCHANGED <<site, started, lock, monitor_thread, just_started, thread>>

\* mutant of Acquire: the block is entered without waiting for _lock
AcquireWithoutWaiting(r) ==
  /\ rpc[r] = "acquire"
  /\ lock' = r
  /\ rpc' = [rpc EXCEPT ![r] = "test"]
  /\ UNCHANGED <<site, started, monitor_thread, just_started, thread>>

\* with _lock: the request waits until the lock is free and takes it
Acquire(r) ==
  /\ rpc[r] = "acquire"
  /\ lock = 0
  /\ lock' = r
  /\ rpc' = [rpc EXCEPT ![r] = "test"]
  /\ UNCHANGED <<site, started, monitor_thread, just_started, thread>>

\* if _started: return False (leaving the with block releases _lock)
TestStarted(r) ==
  /\ rpc[r] = "test"
  /\ IF started
       THEN /\ just_started' = [just_started EXCEPT ![r] = FALSE]
            /\ rpc' = [rpc EXCEPT ![r] = "done"]
            /\ lock' = 0
       ELSE /\ rpc' = [rpc EXCEPT ![r] = "set"]
            /\ UNCHANGED <<just_started, lock>>
  /\ UNCHANGED <<site, started, monitor_thread, thread>>

\* _started = True, and the with block is left
SetStarted(r) ==
  /\ rpc[r] = "set"
  /\ started' = TRUE
  /\ lock' = 0
  /\ rpc' = [rpc EXCEPT ![r] = "create"]
  /\ UNCHANGED <<site, monitor_thread, just_started, thread>>

\* _monitor_thread = threading.Thread(target=run_monitor, daemon=True)
CreateThread(r) ==
  /\ rpc[r] = "create"
  /\ monitor_thread' = r
  /\ thread' = [thread EXCEPT ![r] = "created"]
  /\ rpc' = [rpc EXCEPT ![r] = "start"]
  /\ UNCHANGED <<site, started, lock, just_started>>

\* _monitor_thread.start(): the thread started is the one the global names
\* at that moment
StartThread(r) ==
  /\ rpc[r] = "start"
  /\ thread' = [thread EXCEPT ![monitor_thread] =
                  IF thread[monitor_thread] = "created" THEN "started" ELSE @]
  /\ rpc' = [rpc EXCEPT ![r] = "return"]
  /\ UNCHANGED <<site, started, lock, monitor_thread, just_started>>

\* return True
ReturnTrue(r) ==
  /\ rpc[r] = "return"
  /\ just_started' = [just_started EXCEPT ![r] = TRUE]
  /\ rpc' = [rpc EXCEPT ![r] = "done"]
  /\ UNCHANGED <<site, started, lock, monitor_thread, thread>>

\* run_monitor in its thread: up to the while loop of monitor.run(), or the
\* return when Telegram is not configured
MonitorBegins(r) ==
  /\ thread[r] = "started"
  /\ thread' = [thread EXCEPT ![r] = IF TelegramConfigured THEN "running" ELSE "ended"]
  /\ UNCHANGED <<site, started, lock, monitor_thread, rpc, just_started>>

\* the monitor loop of a thread issues a probe
MonitorProbes(r) ==
  /\ thread[r] = "running"
  /\ thread' = [thread EXCEPT ![r] = "probing"]
  /\ UNCHANGED <<site, started, lock, monitor_thread, rpc, just_started>>

\* the probe of a thread's monitor loop returns
MonitorProbed(r) ==
  /\ thread[r] = "probing"
  /\ thread' = [thread EXCEPT ![r] = "running"]
  /\ UNCHANGED <<site, started, lock, monitor_thread, rpc, just_started>>

\* monitor.run() returns and the thread ends
MonitorEnds(r) ==
  /\ thread[r] = "running"
  /\ thread' = [thread EXCEPT ![r] = "ended"]
  /\ UNCHANGED <<site, started, lock, monitor_thread, rpc, just_started>>

\* the web app is not running
InitNoApp ==
  /\ started = FALSE
  /\ lock = 0
  /\ monitor_thread = 0
  /\ rpc = [r \in Requests |-> "idle"]
  /\ just_started = [r \in Requests |-> FALSE]
  /\ thread = [r \in Requests |-> "none"]

(***************************************************************************)
(* The program                                                             *)
(***************************************************************************)
OkCodeSets == {DEFAULT_OK_CODES, {200, 503}, {200, 405}}
RunRetries == {0, 1, 2}
StopAfters == {None, 0, 1}
Cooldowns == {0, 1}
SpamCounts == {2}

\* nothing called yet
InitIdle ==
  /\ stage = "idle" /\ head = NoCall /\ get = NoCall /\ res = NoRes
  /\ resp_text = NoText
  /\ successes = 0 /\ attempts = 0 /\ probes = <<>> /\ sleeps = 0
  /\ ok = FALSE /\ confirmed = FALSE /\ notif_now = None /\ stop_checked = None
  /\ check_count = 0
  /\ notify_calls = 0 /\ delivered = FALSE
  /\ last_notification = None
  /\ retval = None /\ reason = ""

\* no SiteMonitor is constructed
InitNoMonitor ==
  /\ cooldown = 0
  /\ spam_count = 1
  /\ stop_after_minutes = None
  /\ stop_at_time = None
  /\ start_time = None
  /\ now = 0

\* main: SiteMonitor.__init__, then monitor.run() up to its while loop
InitMonitor ==
  /\ InitNoApp
  /\ mode = "monitor"
  /\ args = NoArgs
  /\ InitIdle
  /\ target \in {"flaky", "up200", "down503"}
  /\ ok_codes = DEFAULT_OK_CODES
  /\ check_content \in BOOLEAN
  /\ retries \in RunRetries
  /\ cooldown \in Cooldowns
  /\ spam_count \in SpamCounts
  /\ stop_after_minutes \in StopAfters
  /\ now \in 0..(DayLen - 1)
  /\ start_time = now
  /\ \E until \in Untils : stop_at_time = parse_until(until, now)
  /\ pc = "loop"

Init == InitMonitor

\* the steps of the monitor's own thread
Run ==
  \/ LoopTop
  \/ TryHead
  \/ TryGet
  \/ Checked
  \/ ConfirmLoop
  \/ ConfirmProbed
  \/ ConfirmSleep
  \/ Confirmed
  \/ Notify
  \/ Sleep

Next ==
  \/ LoopTop
  \/ TryHead
  \/ TryGet
  \/ Checked
  \/ ConfirmLoop
  \/ ConfirmProbed
  \/ ConfirmSleep
  \/ Confirmed
  \/ Notify
  \/ Sleep
  \/ Interrupt

\* the monitor: main() up to the return of monitor.run()
Spec == Init /\ [][Next]_vars

\* the monitor whose thread keeps running: every request, sleep and
\* notification returns (requests have a timeout, sleeps are finite)
LiveSpec == Init /\ [][Next]_vars /\ WF_vars(Run)

\* main --test: one check_once, then return
InitTest ==
  /\ InitNoApp
  /\ mode = "test"
  /\ args = NoArgs
  /\ InitIdle
  /\ InitNoMonitor
  /\ target = "any"
  /\ ok_codes \in OkCodeSets
  /\ check_content \in BOOLEAN
  /\ retries = 0
  /\ pc = "test"

NextTest ==
  \/ TestCall
  \/ TryHead
  \/ TryGet
  \/ TestDone

SpecTest == InitTest /\ [][NextTest]_vars

\* check_with_confirmation called on a SiteChecker, up to its return
InitConfirm ==
  /\ InitNoApp
  /\ mode = "confirm"
  /\ args = NoArgs
  /\ InitIdle
  /\ InitNoMonitor
  /\ target \in {"flaky", "up200", "down503"}
  /\ ok_codes = DEFAULT_OK_CODES
  /\ check_content \in BOOLEAN
  /\ retries \in 0..MaxRetries
  /\ pc = "confirm"

NextConfirm ==
  \/ ConfirmLoop
  \/ TryHead
  \/ TryGet
  \/ ConfirmProbed
  \/ ConfirmSleep

SpecConfirm == InitConfirm /\ [][NextConfirm]_vars

\* main() started with a command line, up to the return of monitor.run()
InitMain ==
  /\ InitNoApp
  /\ mode = "monitor"
  /\ args \in [ok_codes : OkCodesArgs, until : Untils]
  /\ InitIdle
  /\ target = "flaky"
  /\ ok_codes = {}
  /\ check_content = TRUE
  /\ retries = 1
  /\ cooldown = 0
  /\ spam_count \in SpamCounts
  /\ stop_after_minutes \in {None, 1}
  /\ now \in 0..(DayLen - 1)
  /\ start_time = None
  /\ stop_at_time = None
  /\ pc = "main"

NextMain ==
  \/ Main
  \/ LoopTop
  \/ TryHead
  \/ TryGet
  \/ Checked
  \/ ConfirmLoop
  \/ ConfirmProbed
  \/ ConfirmSleep
  \/ Confirmed
  \/ Notify
  \/ Sleep
  \/ Interrupt

SpecMain == InitMain /\ [][NextMain]_vars

\* the web app after import: no request yet, no monitor thread
InitApp ==
  /\ mode = "app"
  /\ args = NoArgs
  /\ InitIdle
  /\ InitNoMonitor
  /\ InitNoApp
  /\ target = "up200"
  /\ ok_codes = DEFAULT_OK_CODES
  /\ check_content = TRUE
  /\ retries = 1
  /\ pc = "app"

NextApp ==
  \/ \E r \in Requests : RootCalled(r)
  \/ \E r \in Requests : Acquire(r)
  \/ \E r \in Requests : TestStarted(r)
  \/ \E r \in Requests : SetStarted(r)
  \/ \E r \in Requests : CreateThread(r)
  \/ \E r \in Requests : StartThread(r)
  \/ \E r \in Requests : ReturnTrue(r)
  \/ \E r \in Requests : MonitorBegins(r)
  \/ \E r \in Requests : MonitorProbes(r)
  \/ \E r \in Requests : MonitorProbed(r)
  \/ \E r \in Requests : MonitorEnds(r)

SpecApp == InitApp /\ [][NextApp]_vars

TypeOK ==
  /\ pc \in RunPcs \cup {"done", "test", "main", "app"}
  /\ stage \in {"idle", "head", "get_body", "get_fallback", "ret"}
  /\ successes \in 0..MaxRetries
  /\ attempts \in 0..(2 * MaxRetries)
  /\ retval \in {None, 0, 1, 2}

(***************************************************************************)
(* Properties                                                              *)
(***************************************************************************)
\* the step is the delivery of the KeyboardInterrupt
Interrupted == pc' = "done" /\ reason' = "INTERRUPTED"

\* number of UP results at the end of a sequence of probe results
RECURSIVE TrailingUps(_)
TrailingUps(ps) ==
  IF ps = <<>> \/ ~ps[Len(ps)] THEN 0
  ELSE 1 + TrailingUps(SubSeq(ps, 1, Len(ps) - 1))

\* a run of n consecutive UP results ends at position k of ps
RunEndsAt(ps, n, k) == k >= n /\ \A j \in (k - n + 1)..k : ps[j]

\* C1: for N >= 1, check_with_confirmation issues at most 2*N probes, its
\* counter is the number of UP results since the last DOWN (an UP adds one, a
\* DOWN resets it to 0), no probe follows the one where the counter reaches
\* N, and it returns confirmed=true exactly when a run of N consecutive UP
\* results ends within the first 2*N probes; a call that returns false has
\* used the whole budget.
C1_Confirmation ==
  (retries >= 1 /\ pc \in {"confirm", "cprobe", "csleep", "cret"}) =>
    /\ Len(probes) <= 2 * retries
    /\ attempts = Len(probes) + (IF pc = "cprobe" THEN 1 ELSE 0)
    /\ successes = TrailingUps(probes)
    /\ \A k \in 1..(Len(probes) - 1) : ~RunEndsAt(probes, retries, k)
    /\ pc = "cret" =>
         /\ confirmed = (\E k \in 1..Min(Len(probes), 2 * retries) : RunEndsAt(probes, retries, k))
         /\ confirmed => RunEndsAt(probes, retries, Len(probes))
         /\ ~confirmed => Len(probes) = 2 * retries

\* C1 witness: N=3 and [UP,UP,DOWN,UP,UP,UP] confirm at the 6th probe
C1_Witness ==
  /\ pc = "cret"
  /\ retries = 3
  /\ probes = <<TRUE, TRUE, FALSE, TRUE, TRUE, TRUE>>
  /\ confirmed

\* C2: the notifier is invoked only in an iteration whose check_once reported
\* UP and whose confirmation returned true; after a DOWN check, or an UP
\* check that is not confirmed, the loop's next step is the interval sleep,
\* and after the sleep the loop continues: nothing is notified and run does
\* not return (unless it is interrupted).
C2_NotifyOnlyWhenConfirmed ==
  [][ /\ notify_calls' # notify_calls => (pc = "notify" /\ ok /\ confirmed)
      /\ (pc = "probe" /\ stage = "ret" /\ ~res.up /\ ~Interrupted) =>
           (pc' = "sleep" /\ notify_calls' = notify_calls /\ retval' = None)
      /\ (pc = "cret" /\ ~confirmed /\ ~Interrupted) =>
           (pc' = "sleep" /\ notify_calls' = notify_calls /\ retval' = None)
      /\ (pc = "sleep" /\ ~(ok /\ confirmed) /\ ~Interrupted) =>
           (pc' = "loop" /\ notify_calls' = notify_calls /\ retval' = None)
    ]_vars

\* C2 witness: the check was UP, the confirmation failed, the loop sleeps
C2_Witness ==
  /\ pc = "sleep"
  /\ ok
  /\ ~confirmed
  /\ notify_calls = 0
  /\ retval = None

\* C3: when notify returns false after a confirmed UP, run does not stop:
\* it never ends reporting success after a delivery that failed.
C3_FailedDeliveryDoesNotStop ==
  ~(pc = "done" /\ notify_calls > 0 /\ ~delivered /\ retval = 0)

\* C4: last_notification changes only in a step of run that follows a
\* delivery that succeeded (notify returned true).
C4_LastNotificationOnlyAfterDelivery ==
  [][last_notification' # last_notification => (pc = "notify" /\ delivered')]_vars

\* C5: a target that always answers 200 without down-keyword and
\* required_successes = 1: unless a stop condition is reached or an interrupt
\* arrives, run eventually ends with the success outcome (return value 0)
\* having invoked the notifier exactly once.
C5_EventuallyNotified ==
  (target = "up200" /\ retries = 1) =>
    <>(/\ pc = "done"
       /\ \/ reason \in {"TIME_LIMIT", "DEADLINE", "INTERRUPTED"}
          \/ (reason = "NOTIFIED" /\ retval = 0 /\ notify_calls = 1))

\* C5 witness: such a run has ended with success after one notification
C5_Witness ==
  /\ target = "up200"
  /\ retries = 1
  /\ stop_after_minutes = None
  /\ stop_at_time = None
  /\ pc = "done"
  /\ retval = 0
  /\ notify_calls = 1

\* C6: when every response of the target is 503 and 503 is not accepted, run
\* never confirms, never notifies and never returns success; it ends only by
\* a stop condition or an interrupt.
C6_NeverUp ==
  (mode = "monitor" /\ target = "down503" /\ 503 \notin ok_codes) =>
    /\ notify_calls = 0
    /\ retval # 0
    /\ pc \notin {"confirm", "cprobe", "csleep", "cret", "notify"}
    /\ pc = "done" => reason \in {"TIME_LIMIT", "DEADLINE", "INTERRUPTED"}

\* C6 witness: the loop is in a later iteration of an always-503 target
C6_Witness ==
  /\ target = "down503"
  /\ 503 \notin ok_codes
  /\ check_count >= 2
  /\ pc = "sleep"
  /\ stop_after_minutes = None

\* C7: the stop condition is evaluated at the top of every iteration, before
\* the probe: an iteration whose stop evaluation is true ends run with that
\* reason and issues no check_once; with stop_after = 0 run issues no probe at
\* all and (unless interrupted first) ends with the time-limit reason.
C7_StopBeforeProbe ==
  /\ [](stop_after_minutes = 0 =>
          /\ check_count = 0
          /\ stage = "idle"
          /\ pc \in {"loop", "done"}
          /\ pc = "done" => reason \in {"TIME_LIMIT", "INTERRUPTED"})
  /\ [][(pc = "loop" /\ should_stop(now).stop /\ ~Interrupted) =>
          /\ pc' = "done"
          /\ reason' = should_stop(now).why
          /\ stage' = "idle"
          /\ check_count' = check_count]_vars
  /\ [][stage' = "head" /\ stage # "head" /\ pc' = "probe" =>
          (pc = "loop" /\ ~should_stop(now).stop)]_vars

\* C7 witness: stop_after = 0 ended the run at its first iteration
C7_Witness ==
  /\ stop_after_minutes = 0
  /\ pc = "done"
  /\ reason = "TIME_LIMIT"
  /\ check_count = 0

\* C8: the value run returns tells the four termination reasons apart: the
\* value returned for the reason the run ended with is returned for no
\* other reason.
C8_ReasonsDistinct ==
  (mode = "monitor" /\ pc = "done") =>
    \A other \in Reasons \ {reason} : retval # return_of(other)

\* C9: when a response that check_once obtained (from HEAD, from the fallback
\* GET or from the GET made for the body check) has a status code outside
\* ok_codes, check_once returns up=false and that code.  (A HEAD answered 405
\* is discarded by _try_head: check_once obtains no response from it.)
C9_UnacceptedCodeIsDown ==
  stage = "ret" =>
    /\ (head.ok /\ head.code \notin ok_codes) => (~res.up /\ res.code = head.code)
    /\ (get.ok /\ get.code \notin ok_codes) => (~res.up /\ res.code = get.code)

\* the requests of the current check_once call
HeadFailed == head.err = "HEAD failed"
HeadNotAllowed == head.err = "HEAD not allowed"
GetMade == get # NoCall
GetFailed == GetMade /\ ~get.ok
FellBack == GetMade /\ ~head.ok

JudgedCode == IF head.ok THEN head.code ELSE IF FellBack /\ get.ok THEN get.code ELSE None

\* C11: for an accepted status code outside {200, 401}, check_once returns
\* up=true with that code, on the HEAD path and on the fallback GET path,
\* whatever the body is and whether or not the content check is enabled.
C11_AcceptedUnambiguousIsUp ==
  (stage = "ret" /\ JudgedCode \in ok_codes \ AmbiguousCodes) =>
    (res.up /\ res.code = JudgedCode)

\* keyword kw occurs in body at some offset, letter case ignored
OccursIgnoringCase(body, kw) ==
  \E i \in 0..(Len(body) - Len(kw)) :
    \A j \in 1..Len(kw) : LowerChar(body[i + j]) = LowerChar(kw[j])

\* C12: with the content check enabled, when an accepted 200 or 401 was
\* answered and the body obtained contains a down-keyword (letter case
\* ignored, as a substring), check_once returns up=false citing a keyword the
\* body contains; an accepted 200 or 401 answered to HEAD forces a GET.
C12_KeywordIsDown ==
  (stage = "ret" /\ check_content /\ JudgedCode \in ok_codes \cap AmbiguousCodes) =>
    /\ GetMade
    /\ (get.ok /\ resp_text # BodyError
          /\ \E k \in 1..Len(DOWN_KEYWORDS) : OccursIgnoringCase(resp_text, DOWN_KEYWORDS[k])) =>
         /\ ~res.up
         /\ res.kind = "HTTP but page contains"
         /\ res.code = JudgedCode
         /\ res.kw \in 1..Len(DOWN_KEYWORDS)
         /\ OccursIgnoringCase(resp_text, DOWN_KEYWORDS[res.kw])

\* C12 witness: HEAD answered 401, the GET it forced brought a body with
\* "MAINTENANCE" in capitals, and check_once returned DOWN citing "maintenance"
C12_Witness ==
  /\ stage = "ret" /\ check_content
  /\ head.ok /\ head.code = 401 /\ get.ok
  /\ resp_text = Maintenance
  /\ ~res.up /\ res.kw = 1

\* --until is given and is not HH:MM with hh an hour and mm a minute
MalformedUntil(until) ==
  /\ until # <<>>
  /\ ~(Len(until) = 2 /\ until[1] \in 0..(HoursPerDay - 1) /\ until[2] \in 0..(MinPerHour - 1))

\* --ok-codes is not a list of integers
MalformedOkCodes(tokens) ==
  \/ tokens = <<>>
  \/ \E i \in 1..Len(tokens) :
       LET t == SelectSeq(tokens[i], LAMBDA c : c # " ")
       IN t = <<>> \/ \E j \in 1..Len(t) : t[j] \notin {Digits[d] : d \in 1..Len(Digits)}

\* C13: started with a malformed --until or a malformed or empty --ok-codes,
\* main returns an error before the monitor loop begins: it ends at once, with
\* a result that is neither unset nor 0 and without a probe.
C13_InvalidConfigurationIsFatal ==
  [][(pc = "main" /\ (MalformedUntil(args.until) \/ MalformedOkCodes(args.ok_codes))) =>
       (pc' = "done" /\ retval' \notin {None, 0} /\ check_count' = 0 /\ stage' = "idle")]_vars

TimeOfDay(t) == t % DayLen
DayOf(t) == t \div DayLen

\* C14: when --until is a valid time of day, the deadline has that time of
\* day, on the day of construction if it is later than the current time and on
\* the next day if it is earlier or equal; the deadline is after the
\* construction time, at most one day after it, and not reached at start.
C14_DeadlineWraps ==
  [][(pc = "main" /\ pc' = "loop" /\ args.until # <<>> /\ ~MalformedUntil(args.until)) =>
       LET tod == (args.until[1] * MinPerHour + args.until[2]) * TicksPerMin
       IN /\ stop_at_time' # None
          /\ TimeOfDay(stop_at_time') = tod
          /\ DayOf(stop_at_time') = DayOf(now) + (IF tod <= TimeOfDay(now) THEN 1 ELSE 0)
          /\ start_time' = now
          /\ stop_at_time' > start_time'
          /\ stop_at_time' <= start_time' + DayLen
          /\ ~(now' >= stop_at_time')]_vars

\* C14 witness: the time of day given is the current one and the deadline is
\* exactly one day after the construction
C14_Witness ==
  /\ pc = "loop" /\ check_count = 0
  /\ start_time # None /\ stop_at_time = start_time + DayLen

\* the step is an invocation of the notifier
NotifierInvoked == notify_calls' # notify_calls

Downs(ps) == Cardinality({i \in 1..Len(ps) : ~ps[i]})

\* C16: for N >= 1, a call of check_with_confirmation whose probes had at
\* most one DOWN result returns confirmed=true, within 2*N probes.
C16_OneFlakyFailureTolerated ==
  (pc = "cret" /\ retries >= 1 /\ Downs(probes) <= 1) =>
    (confirmed /\ Len(probes) <= 2 * retries)

\* C16 witness: N=2 and [UP,DOWN,UP,UP] confirm at the 4th probe, the last
\* of the budget
C16_Witness ==
  /\ pc = "cret" /\ retries = 2
  /\ probes = <<TRUE, FALSE, TRUE, TRUE>>
  /\ confirmed

\* run is waiting in an HTTP request, in a sleep or in the notifier
Suspended ==
  \/ pc \in {"probe", "cprobe"} /\ stage \in {"head", "get_body", "get_fallback"}
  \/ pc \in {"sleep", "csleep", "notify"}

\* C17: a KeyboardInterrupt can be taken at every suspension point of run;
\* run then returns 1, and from then on there is no probe and no
\* notification.
C17_InterruptUnwinds ==
  /\ [](Suspended => ENABLED Interrupt)
  /\ [][Interrupted =>
         /\ retval' = 1
         /\ stage' = "idle"
         /\ UNCHANGED <<notify_calls, check_count, last_notification>>]_vars
  /\ [][pc = "done" => UNCHANGED <<pc, stage, notify_calls, check_count, retval>>]_vars

\* C17 witness: run was interrupted in its second iteration and returned 1
C17_Witness ==
  /\ pc = "done" /\ reason = "INTERRUPTED" /\ retval = 1
  /\ check_count = 2 /\ notify_calls = 0

\* C19: in a run last_notification is unset whenever the cooldown condition
\* is evaluated (it is set only in a run that has returned), so a confirmed
\* cycle always goes on to notify, whatever the cooldown.
C19_CooldownNeverApplies ==
  /\ [](pc \in RunPcs => last_notification = None)
  /\ [][(pc = "cret" /\ confirmed /\ ~Interrupted) => pc' = "notify"]_vars

\* C19 witness: with a cooldown set, the cooldown condition is about to be
\* evaluated for a cycle confirmed in the second iteration
C19_Witness ==
  /\ pc = "cret" /\ confirmed
  /\ cooldown > 0 /\ check_count = 2
  /\ last_notification = None

\* C18: check_with_confirmation sleeps only between two probes: not before
\* the first probe and not after the last, so a call that has issued k >= 1
\* probes has slept k-1 times when it returns, confirmed or not.
C18_SleepsOnlyBetweenProbes ==
  /\ (pc = "cprobe" /\ retries >= 1) => sleeps = attempts - 1
  /\ (pc = "cret" /\ Len(probes) >= 1) => sleeps = Len(probes) - 1

\* the elapsed-minutes limit or the deadline is reached at time t
StopHolds(t) ==
  \/ stop_after_minutes # None /\ t - start_time >= stop_after_minutes * TicksPerMin
  \/ stop_at_time # None /\ t >= stop_at_time

\* C20 as claimed: when run invokes the notifier, neither the elapsed-minutes
\* limit nor the deadline is reached.
C20_NoNotifyOnceStopHolds ==
  pc = "notify" => ~StopHolds(now)

\* C20: when run invokes the notifier, the stop condition was false when
\* this iteration evaluated it, before its probe; it is not evaluated again
\* in the iteration.
C20_StopFalseAtIterationTop ==
  pc = "notify" =>
    /\ stop_checked # None
    /\ stop_checked <= now
    /\ ~StopHolds(stop_checked)

\* C20 witness: the notifier is about to be invoked in an iteration that
\* began before the limit and during which the limit was reached
C20_Witness ==
  /\ pc = "notify"
  /\ stop_checked # None /\ ~StopHolds(stop_checked)
  /\ StopHolds(now)

\* the requests whose call of start_monitor_once returned True / False
ReturnedTrue == {r \in Requests : rpc[r] = "done" /\ just_started[r]}
ReturnedFalse == {r \in Requests : rpc[r] = "done" /\ ~just_started[r]}

\* the requests that passed the gate: they found _started false
PassedGate == {r \in Requests : rpc[r] \in {"set", "create", "start", "return"}} \cup ReturnedTrue

\* C21: under any interleaving of the calls of start_monitor_once, at most
\* one call passes the gate; only that call creates and starts a monitor
\* thread and returns True; a call that returns False has started nothing
\* and another call has passed the gate; once every call made has returned,
\* exactly one has returned True and its thread is started.  So at most one
\* monitor thread exists and no two probe at the same time.
C21_StartOnce ==
  /\ Cardinality(PassedGate) <= 1
  /\ Cardinality(ReturnedTrue) <= 1
  /\ \A r \in Requests : thread[r] # "none" => r \in PassedGate
  /\ \A r \in ReturnedTrue : thread[r] \notin {"none", "created"}
  /\ \A r \in ReturnedFalse : thread[r] = "none" /\ PassedGate \ {r} # {}
  /\ Cardinality({r \in Requests : thread[r] # "none"}) <= 1
  /\ Cardinality({r \in Requests : thread[r] = "probing"}) <= 1
  /\ ((\A r \in Requests : rpc[r] \in {"idle", "done"}) /\ (\E r \in Requests : rpc[r] = "done"))
       => Cardinality(ReturnedTrue) = 1

\* C21 witness: every request has called start_monitor_once and returned,
\* one with True and the others with False, and the one monitor is probing
C21_Witness ==
  /\ \A r \in Requests : rpc[r] = "done"
  /\ Cardinality(ReturnedTrue) = 1
  /\ Cardinality(ReturnedFalse) = MaxRequests - 1
  /\ \E r \in ReturnedTrue : thread[r] = "probing"
====
